---- MODULE Spec2Model ----
(***************************************************************************)
(* A model of the some-mut crate (src/src/lib.rs): SomeMut<'a, T>, a       *)
(* mutable reference to an Option<T> that is guaranteed to be Some, and    *)
(* OptionExt::some_mut, the only constructor of it.                        *)
(*                                                                         *)
(* T is modelled as a small signed integer type.  An Option<T> is the      *)
(* empty sequence (None) or a one-element sequence (Some(v)).  Every cell  *)
(* has a stack of the live references that were derived from it, the       *)
(* innermost (usable) one on top: a SomeMut handle, the &mut T that        *)
(* into_mut returns, or the &mut Option<T> that into_option_mut returns.   *)
(* The exclusive-borrow rules of the language are the guards on that       *)
(* stack.                                                                  *)
(***************************************************************************)
EXTENDS Integers, Sequences, FiniteSets

\* ------------------------------------------------------------- bounds
\* T's values are -MaxVal .. MaxVal.
MaxVal == 1
\* The longest chain of references derived from one cell.
MaxDepth == 2

\* The caller's cells (two independent Option<T> variables).
Cells == {"x", "y"}
Values == (0 - MaxVal)..MaxVal

\* ------------------------------------------------------------- Option<T>
None == <<>>
Some(v) == <<v>>
Options == {None} \cup {Some(v) : v \in Values}

VARIABLES
    cell,   \* cell[c]: the Option<T> stored in the caller's cell c
    refs,   \* refs[c]: the stack of live references derived from cell c
    op,     \* the operation the last step performed, with what it returned
    ub      \* TRUE once unwrap_unchecked has been called on a None

vars == <<cell, refs, op, ub>>

\* A reference: what it is (a SomeMut handle, a &mut T, a &mut Option<T>) and
\* the cell its pointer refers to (SomeMut's field 0).
Ref(k, c) == [kind |-> k, ref |-> c]
Top(c) == refs[c][Len(refs[c])]
Pop(s) == SubSeq(s, 1, Len(s) - 1)
HasTop(c, k) == refs[c] # <<>> /\ Top(c).kind = k

\* The record of a step: the operation, the cell whose stack it acted on, the
\* path it went through, its argument and its result (both as sequences).
Op(n, c, v, a, r) == [name |-> n, cell |-> c, via |-> v, arg |-> a, ret |-> r]

\* ------------------------------------------------------------- core::option
\* Option::take: leaves None, returns what was there.
OptionTake(o) == [cell |-> None, ret |-> o]

\* Option::unwrap_unchecked: the value of a Some; on a None it is undefined
\* behaviour, modelled as any value at all (and reported in ub).
UnwrapUnchecked(o) == IF o # None THEN {o[1]} ELSE Values

\* Option::as_ref / Option::as_mut: the same Option, seen through a reference.
OptionAsRef(o) == o

\* ------------------------------------------------------------- T
DigitChars == <<"0", "1", "2", "3", "4", "5", "6", "7", "8", "9">>

RECURSIVE Digits(_)
Digits(n) ==
    IF n < 10 THEN <<DigitChars[n + 1]>>
    ELSE Digits(n \div 10) \o <<DigitChars[(n % 10) + 1]>>

\* T's own Display and Debug (an integer: its decimal digits, with a sign),
\* T::eq and T::partial_cmp.
TDisplay(v) == IF v < 0 THEN <<"-">> \o Digits(0 - v) ELSE Digits(v)
TDebug(v) == TDisplay(v)
TEq(v, w) == v = w
TPartialCmp(v, w) ==
    IF v < w THEN Some("Less") ELSE IF v = w THEN Some("Equal") ELSE Some("Greater")

\* ------------------------------------------------------------- OptionExt
\* some_mut on a cell holding o: the cell afterwards, and whether a handle
\* (Some(SomeMut(x))) is returned.
\* Faulty variants of some_mut: no match on the Option at all, the arms of the
\* match swapped, and the value moved out while looking.
some_mut_unchecked(o) == [cell |-> o, handle |-> TRUE]
some_mut_swapped(o) == [cell |-> o, handle |-> o = None]
some_mut_taking(o) == [cell |-> OptionTake(o).cell, handle |-> o # None]

some_mut(o) == [cell |-> o, handle |-> o # None]

\* ------------------------------------------------------------- SomeMut
\* Each method is given the Option o that the handle's reference points to.
\* cell: the Option afterwards; ret: the values the call can return.

\* A faulty take: as_mut in place of take, so the value stays in the cell.
take_as_mut(o) == [cell |-> o, ret |-> UnwrapUnchecked(OptionAsRef(o))]

\* self.0.take().unwrap_unchecked()
take(o) ==
    LET t == OptionTake(o)
    IN  [cell |-> t.cell, ret |-> UnwrapUnchecked(t.ret)]

\* A faulty into_mut: take in place of as_mut, so the cell is emptied.
into_mut_taking(o) == [cell |-> OptionTake(o).cell, ret |-> UnwrapUnchecked(o)]

\* self.0.as_mut().unwrap_unchecked(): a &mut T; ret is the value it points to.
into_mut(o) == [cell |-> o, ret |-> UnwrapUnchecked(OptionAsRef(o))]

\* A faulty into_option_mut: the value is moved out before the reference is
\* handed back.
into_option_mut_taking(o) == [cell |-> OptionTake(o).cell, ret |-> {None}]

\* self.0: the reference to the Option itself.
into_option_mut(o) == [cell |-> o, ret |-> {o}]

\* self.0.as_ref().unwrap_unchecked()
deref(o) == UnwrapUnchecked(OptionAsRef(o))

\* A write *p = w through a &mut T that points into the Option o: it lands in
\* the Some's payload.  On a None the pointer came out of undefined behaviour
\* and the write may or may not change the cell.
PayloadWrite(o, w) == IF o # None THEN {Some(w)} ELSE {None, Some(w)}

\* A faulty deref_mut: a reference to a copy of the value, so the write is lost.
deref_mut_copy(o, w) == {o}

\* self.0.as_mut().unwrap_unchecked(), then the caller's write *h = w through
\* the &mut T it returns: the Options the cell can hold afterwards.
deref_mut(o, w) == PayloadWrite(OptionAsRef(o), w)

\* Borrow::borrow, AsRef::as_ref, AsMut::as_mut: deref coercions of self.
borrow(o) == deref(o)
as_ref(o) == deref(o)
as_mut(o, w) == deref_mut(o, w)

\* A faulty Debug: the Option is formatted (as a derived Debug would), not
\* the value in it.
debug_fmt_derived(o) ==
    {<<"S", "o", "m", "e", "(">> \o TDebug(v) \o <<")">> : v \in deref(o)}

\* Debug::fmt and Display::fmt: (**self).fmt(f)
debug_fmt(o) == {TDebug(v) : v \in deref(o)}
display_fmt(o) == {TDisplay(v) : v \in deref(o)}

\* PartialEq<T>::eq and PartialOrd<T>::partial_cmp: T::eq(self, other), ...
eq(o, w) == {TEq(v, w) : v \in deref(o)}
partial_cmp(o, w) == {TPartialCmp(v, w) : v \in deref(o)}

\* ------------------------------------------------------------- borrows
\* The cell c can be used as a &mut Option<T>: by its owner when nothing
\* borrows it, or through the innermost reference when that is a
\* &mut Option<T>.  A live SomeMut or &mut T holds the cell exclusively.
\* A faulty borrow: the cell stays usable while a handle or a &mut T is alive
\* (as if the handle did not hold the exclusive borrow).
CellUsableAliased(c) == TRUE
CellUsable(c) == IF refs[c] = <<>> THEN TRUE ELSE Top(c).kind = "Option"
\* The cell that usable reference points to, and the path taken to it.
Target(c) == IF refs[c] = <<>> THEN c ELSE Top(c).ref
Path(c) == IF refs[c] = <<>> THEN "owner" ELSE Top(c).kind

TypeOK ==
    /\ cell \in [Cells -> Options]
    /\ \A c \in Cells :
          /\ Len(refs[c]) <= MaxDepth
          /\ \A i \in 1..Len(refs[c]) :
                /\ refs[c][i].kind \in {"SomeMut", "T", "Option"}
                /\ refs[c][i].ref \in Cells
    /\ ub \in BOOLEAN

Init ==
    /\ cell \in [Cells -> Options]
    /\ refs = [c \in Cells |-> <<>>]
    /\ op = Op("init", "x", "owner", <<>>, <<>>)
    /\ ub = FALSE

\* ------------------------------------------------------------- the caller
\* The caller assigns an Option to the cell ( x = Some(v), *r = None, ... ).
CellAssign(c, o) ==
    /\ CellUsable(c)
    /\ cell' = [cell EXCEPT ![Target(c)] = o]
    /\ op' = Op("assign", c, Path(c), <<o>>, <<>>)
    /\ UNCHANGED <<refs, ub>>

\* The caller reads the cell ( x.is_none(), ... ).
CellRead(c) ==
    /\ CellUsable(c)
    /\ op' = Op("read", c, Path(c), <<>>, <<cell[Target(c)]>>)
    /\ UNCHANGED <<cell, refs, ub>>

\* r.some_mut() on the usable &mut Option<T>: on Some, the handle borrows the
\* cell (the elided lifetime of the result is that of &mut self).
SomeMutCall(c) ==
    /\ CellUsable(c)
    /\ Len(refs[c]) < MaxDepth
    /\ LET t == Target(c)
           r == some_mut(cell[t])
       IN  /\ cell' = [cell EXCEPT ![t] = r.cell]
           /\ refs' = IF r.handle
                      THEN [refs EXCEPT ![c] = Append(@, Ref("SomeMut", t))]
                      ELSE refs
           /\ op' = Op("some_mut", c, Path(c), <<>>,
                       IF r.handle THEN <<"Some">> ELSE <<"None">>)
    /\ UNCHANGED ub

\* A faulty drop: a Drop impl that empties the handle's cell.
DropRefTaking(c) ==
    /\ refs[c] # <<>>
    /\ refs' = [refs EXCEPT ![c] = Pop(@)]
    /\ cell' = [cell EXCEPT ![Top(c).ref] =
                   IF Top(c).kind = "SomeMut" THEN None ELSE @]
    /\ op' = Op("drop", c, Top(c).kind, <<>>, <<>>)
    /\ UNCHANGED ub

\* A reference goes out of scope: the handle is dropped without take (SomeMut
\* has no Drop impl), or a &mut T or &mut Option<T> ends.
DropRef(c) ==
    /\ refs[c] # <<>>
    /\ refs' = [refs EXCEPT ![c] = Pop(@)]
    /\ op' = Op("drop", c, Top(c).kind, <<>>, <<>>)
    /\ UNCHANGED <<cell, ub>>

\* A write *p = w through the &mut T that into_mut returned.
ValueWrite(c, w) ==
    /\ HasTop(c, "T")
    /\ \E n \in PayloadWrite(cell[Top(c).ref], w) :
          cell' = [cell EXCEPT ![Top(c).ref] = n]
    /\ op' = Op("write", c, "T", <<w>>, <<>>)
    /\ UNCHANGED <<refs, ub>>

\* ------------------------------------------------------------- the handle
\* The Option the handle on top of c's stack points to.
Pointee(c) == cell[Top(c).ref]

\* h.take(): consumes the handle and moves the value out of the cell.
Take(c) ==
    /\ HasTop(c, "SomeMut")
    /\ LET r == take(Pointee(c))
       IN  /\ cell' = [cell EXCEPT ![Top(c).ref] = r.cell]
           /\ \E v \in r.ret : op' = Op("take", c, "SomeMut", <<>>, <<v>>)
    /\ refs' = [refs EXCEPT ![c] = Pop(@)]
    /\ ub' = (ub \/ Pointee(c) = None)

\* h.into_mut(): consumes the handle; the &mut T keeps the cell borrowed.
IntoMut(c) ==
    /\ HasTop(c, "SomeMut")
    /\ LET r == into_mut(Pointee(c))
       IN  /\ cell' = [cell EXCEPT ![Top(c).ref] = r.cell]
           /\ \E v \in r.ret : op' = Op("into_mut", c, "SomeMut", <<>>, <<v>>)
    /\ refs' = [refs EXCEPT ![c] = Append(Pop(@), Ref("T", Top(c).ref))]
    /\ ub' = (ub \/ Pointee(c) = None)

\* h.into_option_mut(): consumes the handle; the &mut Option<T> keeps the cell
\* borrowed and carries no guarantee.
IntoOptionMut(c) ==
    /\ HasTop(c, "SomeMut")
    /\ LET r == into_option_mut(Pointee(c))
       IN  /\ cell' = [cell EXCEPT ![Top(c).ref] = r.cell]
           /\ \E o \in r.ret : op' = Op("into_option_mut", c, "SomeMut", <<>>, <<o>>)
    /\ refs' = [refs EXCEPT ![c] = Append(Pop(@), Ref("Option", Top(c).ref))]
    /\ UNCHANGED ub

\* A read through the handle with method n, which can return the values rets.
ReadThrough(c, n, a, rets) ==
    /\ HasTop(c, "SomeMut")
    /\ \E r \in rets : op' = Op(n, c, "SomeMut", a, <<r>>)
    /\ ub' = (ub \/ Pointee(c) = None)
    /\ UNCHANGED <<cell, refs>>

\* A write *h = w through the handle with method n, after which the cell can
\* hold any of news.
WriteThrough(c, n, w, news) ==
    /\ HasTop(c, "SomeMut")
    /\ \E o \in news : cell' = [cell EXCEPT ![Top(c).ref] = o]
    /\ op' = Op(n, c, "SomeMut", <<w>>, <<>>)
    /\ ub' = (ub \/ Pointee(c) = None)
    /\ UNCHANGED refs

Deref(c) == ReadThrough(c, "deref", <<>>, deref(Pointee(c)))
Borrow(c) == ReadThrough(c, "borrow", <<>>, borrow(Pointee(c)))
AsRef(c) == ReadThrough(c, "as_ref", <<>>, as_ref(Pointee(c)))
DebugFmt(c) == ReadThrough(c, "debug_fmt", <<>>, debug_fmt(Pointee(c)))
DisplayFmt(c) == ReadThrough(c, "display_fmt", <<>>, display_fmt(Pointee(c)))
Eq(c, w) == ReadThrough(c, "eq", <<w>>, eq(Pointee(c), w))
PartialCmp(c, w) == ReadThrough(c, "partial_cmp", <<w>>, partial_cmp(Pointee(c), w))
DerefMut(c, w) == WriteThrough(c, "deref_mut", w, deref_mut(Pointee(c), w))
AsMut(c, w) == WriteThrough(c, "as_mut", w, as_mut(Pointee(c), w))

\* ------------------------------------------------------------- the system
Next ==
    \E c \in Cells :
        \/ \E o \in Options : CellAssign(c, o)
        \/ CellRead(c)
        \/ SomeMutCall(c)
        \/ DropRef(c)
        \/ \E w \in Values : ValueWrite(c, w)
        \/ Take(c)
        \/ IntoMut(c)
        \/ IntoOptionMut(c)
        \/ Deref(c)
        \/ Borrow(c)
        \/ AsRef(c)
        \/ DebugFmt(c)
        \/ DisplayFmt(c)
        \/ \E w \in Values : Eq(c, w)
        \/ \E w \in Values : PartialCmp(c, w)
        \/ \E w \in Values : DerefMut(c, w)
        \/ \E w \in Values : AsMut(c, w)

Spec == Init /\ [][Next]_vars

\* ------------------------------------------------------------- properties
\* Names of the steps, as recorded in op.
Reads == {"deref", "borrow", "as_ref"}
Writes == {"deref_mut", "as_mut"}
Observers == {"eq", "partial_cmp", "debug_fmt", "display_fmt"}
\* The cell a step on c's stack acted on, when it went through the handle.
HandleCell(c) == Top(c).ref
\* The reference on top of c's stack after the step.
TopAfter(c) == refs'[c][Len(refs'[c])]

\* C1: whenever a SomeMut handle exists, the cell it refers to is Some, and
\* no unwrap_unchecked (take, into_mut, deref, deref_mut) has run on a None.
C1_HandleCellIsSome ==
    /\ \A c \in Cells : \A i \in 1..Len(refs[c]) :
          refs[c][i].kind = "SomeMut" => cell[refs[c][i].ref] # None
    /\ ~ub

\* A handle exists right after a mutation through it.
C1_Witness ==
    /\ op.name = "deref_mut"
    /\ HasTop(op.cell, "SomeMut")
    /\ cell[op.cell] = Some(op.arg[1])

\* C2: some_mut returns nothing on a None cell; on Some(v) it returns a
\* handle on that same cell (leaving v in place), and a read through a handle
\* yields the v its cell holds.
C2_SomeMutIffOccupied ==
    [][ /\ op'.name = "some_mut" =>
            LET c == op'.cell
                t == Target(c)
            IN  IF cell[t] = None
                THEN op'.ret = <<"None">> /\ refs' = refs
                ELSE /\ op'.ret = <<"Some">>
                     /\ refs' = [refs EXCEPT ![c] = Append(@, Ref("SomeMut", t))]
                     /\ t = c
                     /\ cell'[t] = cell[t]
        /\ op'.name \in Reads =>
            LET t == HandleCell(op'.cell)
            IN  cell[t] # None /\ op'.ret = <<cell[t][1]>>
      ]_vars

\* A handle was acquired and read through.
C2_Witness ==
    /\ op.name = "deref"
    /\ HasTop(op.cell, "SomeMut")
    /\ op.ret = cell[op.cell]

\* C3: take on a handle over Some(v) returns v and leaves the cell None; a
\* None cell stays None until the caller assigns to it, and some_mut on a
\* None cell returns nothing.
C3_TakeEmpties ==
    [][ /\ op'.name = "take" =>
            LET c == op'.cell
                t == HandleCell(c)
            IN  /\ cell[t] # None
                /\ op'.ret = <<cell[t][1]>>
                /\ cell' = [cell EXCEPT ![t] = None]
                /\ refs' = [refs EXCEPT ![c] = Pop(@)]
        /\ \A c \in Cells :
            (cell[c] = None /\ cell'[c] # None) =>
                op'.name = "assign" /\ Target(op'.cell) = c
        /\ (op'.name = "some_mut" /\ cell[Target(op'.cell)] = None) =>
            op'.ret = <<"None">> /\ refs' = refs
      ]_vars

\* A take has just emptied the cell of its handle.
C3_Witness ==
    /\ op.name = "take"
    /\ cell[op.cell] = None
    /\ refs[op.cell] = <<>>

\* C4: some_mut never changes any cell, whether or not it returns a handle.
C4_SomeMutPure == [][op'.name = "some_mut" => cell' = cell]_vars

\* some_mut has returned a handle on an occupied cell.
C4_Witness ==
    /\ op.name = "some_mut"
    /\ op.ret = <<"Some">>
    /\ HasTop(op.cell, "SomeMut")
    /\ cell[op.cell] # None

\* C5 as claimed: inside the system (every path but the owner's own use of
\* its cell), only take turns a Some cell into a None cell.
C5_OnlyTakeEmpties ==
    [][ \A c \in Cells :
          (cell[c] # None /\ cell'[c] = None /\ op'.via # "owner") =>
              op'.name = "take"
      ]_vars

\* C5 as amended: of the handle's operations only take empties a cell; the
\* other way a Some cell becomes None is the caller's assignment of None,
\* through the cell itself or through the &mut Option<T> that
\* into_option_mut returned.
C5_OnlyTakeOrAssignEmpties ==
    [][ \A c \in Cells :
          (cell[c] # None /\ cell'[c] = None) =>
              \/ op'.name = "take" /\ HandleCell(op'.cell) = c
              \/ /\ op'.name = "assign"
                 /\ op'.via \in {"owner", "Option"}
                 /\ op'.arg = <<None>>
                 /\ Target(op'.cell) = c
      ]_vars

\* The cell was emptied through the reference into_option_mut returned.
C5_Witness ==
    /\ op.name = "assign"
    /\ op.via = "Option"
    /\ op.arg = <<None>>
    /\ cell[op.cell] = None

\* C6: a write of w through a live handle leaves the cell Some(w) and the
\* handle alive; a read through the handle right after it yields w, every
\* read through a handle yields what its cell holds, and dropping a handle
\* and acquiring one leave the cell as it is.
C6_MutatePreservesOccupancy ==
    [][ /\ op'.name \in Writes =>
            LET c == op'.cell
                t == HandleCell(c)
            IN  /\ cell[t] # None
                /\ cell' = [cell EXCEPT ![t] = Some(op'.arg[1])]
                /\ refs' = refs
        /\ (op.name \in Writes /\ op'.name \in Reads /\ op'.cell = op.cell) =>
            op'.ret = op.arg
        /\ op'.name \in Reads =>
            op'.ret = cell[HandleCell(op'.cell)] /\ cell' = cell
        /\ op'.name \in {"drop", "some_mut"} => cell' = cell
      ]_vars

\* A value was written through a handle that is still alive.
C6_Witness ==
    /\ op.name = "as_mut"
    /\ HasTop(op.cell, "SomeMut")
    /\ cell[op.cell] = op.arg

\* C7: into_option_mut leaves the cell as it is and returns a reference to
\* that cell; some_mut called on it right away returns a handle on the same
\* cell, which still holds the same value.
C7_IntoOptionMutRoundTrip ==
    [][ /\ op'.name = "into_option_mut" =>
            LET c == op'.cell
                t == HandleCell(c)
            IN  /\ cell[t] # None
                /\ cell' = cell
                /\ op'.ret = <<cell[t]>>
                /\ refs' = [refs EXCEPT ![c] = Append(Pop(@), Ref("Option", t))]
        /\ (op.name = "into_option_mut" /\ op'.name = "some_mut"
                /\ op'.cell = op.cell) =>
            LET c == op'.cell
            IN  /\ op'.ret = <<"Some">>
                /\ TopAfter(c) = Ref("SomeMut", Top(c).ref)
                /\ cell' = cell
                /\ <<cell'[Top(c).ref]>> = op.ret
      ]_vars

\* A handle was re-acquired through the reference into_option_mut returned.
C7_Witness ==
    /\ op.name = "some_mut"
    /\ op.via = "Option"
    /\ op.ret = <<"Some">>
    /\ HasTop(op.cell, "SomeMut")

\* C8: into_mut and dropping a reference leave every cell as it is, the
\* handle's cell Some with the value it held; some_mut on a Some cell returns
\* a handle.
C8_EndWithoutTakeKeepsCell ==
    [][ /\ op'.name = "into_mut" =>
            LET c == op'.cell
                t == HandleCell(c)
            IN  /\ cell[t] # None
                /\ cell' = cell
                /\ op'.ret = cell[t]
                /\ refs' = [refs EXCEPT ![c] = Append(Pop(@), Ref("T", t))]
        /\ op'.name = "drop" =>
            /\ cell' = cell
            /\ refs' = [refs EXCEPT ![op'.cell] = Pop(@)]
            /\ op'.via = "SomeMut" => cell[HandleCell(op'.cell)] # None
        /\ (op'.name = "some_mut" /\ cell[Target(op'.cell)] # None) =>
            op'.ret = <<"Some">>
      ]_vars

\* A handle was dropped without take, and its cell is still Some.
C8_Witness ==
    /\ op.name = "drop"
    /\ op.via = "SomeMut"
    /\ refs[op.cell] = <<>>
    /\ cell[op.cell] # None

\* The handles that point to cell c, as <<stack, position>> pairs.
HandlesOn(c) ==
    {p \in Cells \X (1..MaxDepth) :
        /\ p[2] <= Len(refs[p[1]])
        /\ refs[p[1]][p[2]] = Ref("SomeMut", c)}

\* C9: at most one handle per cell is alive, it is the innermost reference
\* to its cell, and while it is alive every step that reads or changes the
\* cell or its borrows goes through that handle.
C9_HandleIsExclusive ==
    /\ [](\A c \in Cells :
            /\ Cardinality(HandlesOn(c)) <= 1
            /\ \A p \in HandlesOn(c) : p[1] = c /\ p[2] = Len(refs[c]))
    /\ [][ \A c \in Cells :
             (HasTop(c, "SomeMut")
                /\ (op'.cell = c \/ cell'[c] # cell[c] \/ refs'[c] # refs[c])) =>
                 op'.via = "SomeMut" /\ op'.cell = c /\ op'.name # "some_mut"
         ]_vars

\* Each of the two cells is borrowed by a handle of its own.
C9_Witness == \A c \in Cells : HasTop(c, "SomeMut") /\ HandlesOn(c) = {<<c, Len(refs[c])>>}

\* C10: eq, partial_cmp, Debug and Display on a handle over Some(v) give
\* what T's own eq, partial_cmp, Debug and Display give for v, and change
\* neither the cell nor the handle.
C10_ObserversDelegate ==
    [][ op'.name \in Observers =>
            LET t == HandleCell(op'.cell)
                r == op'.ret[1]
            IN  /\ cell[t] # None
                /\ cell' = cell
                /\ refs' = refs
                /\ op'.name = "eq" => r = TEq(cell[t][1], op'.arg[1])
                /\ op'.name = "partial_cmp" => r = TPartialCmp(cell[t][1], op'.arg[1])
                /\ op'.name = "debug_fmt" => r = TDebug(cell[t][1])
                /\ op'.name = "display_fmt" => r = TDisplay(cell[t][1])
      ]_vars

\* A handle over a negative value was formatted, sign included.
C10_Witness ==
    /\ op.name = "display_fmt"
    /\ cell[op.cell] # None
    /\ cell[op.cell][1] < 0
    /\ op.ret = <<TDisplay(cell[op.cell][1])>>
    /\ Len(op.ret[1]) = 2

====
